---- MODULE Spec2Model ----
(***************************************************************************)
(* A model of scottdb's storage core: the on-disk table parser             *)
(* (ScTableCache::from_raw), the bounded table cache manager               *)
(* (TableCacheManager) and the partition write/read path (PartitionImpl).  *)
(*                                                                         *)
(* The specifications share the module, one per subsystem:                 *)
(*   SpecParse      from_raw applied to table buffers                      *)
(*   SpecPartition  put / get on one PartitionImpl                         *)
(*   SpecFreeze     put on one PartitionImpl beside the flush scheduler    *)
(*   SpecCache      threads running the cache-miss protocol on one         *)
(*                  TableCacheManager (FairSpecCache adds scheduling       *)
(*                  fairness)                                              *)
(***************************************************************************)
EXTENDS Integers, Sequences, FiniteSets, TLC

VARIABLES
    \* ---- SpecParse
    p_items,        \* the catalog items the buffer was built from
    p_data,         \* the data region the buffer was built from
    p_raw,          \* the raw buffer handed to from_raw
    p_out,          \* from_raw's result, NotParsed before the call
    \* ---- SpecPartition
    mem_table,            \* PartitionImpl.mem_table (BTreeMap, as a sorted sequence)
    mem_table_data_size,  \* PartitionImpl.mem_table_data_size
    imm_table,            \* PartitionImpl.imm_table (None or a sorted sequence)
    lower_bound,          \* PartitionImpl.lower_bound (None or a user key)
    upper_bound,          \* PartitionImpl.upper_bound
    table_size,           \* Options.table_size
    written,              \* history: every (key, value) a put has stored
    latest,               \* history: the value last stored under each internal key
    first_written,        \* history: the user key of the first put
    last_op,              \* the last call and what it returned
    \* ---- SpecCache
    current_cache_count,  \* TableCacheManager.current_cache_count
    lru,                  \* TableCacheManager.lru, most recently used first
    tables,               \* the live ScTableCache objects, by identity
    pc,                   \* each thread's position in the cache-miss protocol
    t_file,               \* the file each thread is loading or reading, or failed to load
    t_tbl,                \* the table each thread owns or references
    t_seen,               \* history: the table contents a reader saw on acquisition
    polls,                \* parity of each thread's failed polls in allocate_quota
    \* ---- SpecCompare
    bounds_of,            \* the bounds (lower, upper) of each of two partitions
    cmp_out,              \* the last comparison of two partitions and its results
    \* ---- SpecKeys
    k_in,                 \* three internal keys
    k_out,                \* the results of comparing them, NoCmp before the call
    \* ---- SpecIndex
    idx_out               \* the last call on the index, its result, and the history
                          \* of touches and additions per file

parse_vars == <<p_items, p_data, p_raw, p_out>>
part_vars  == <<mem_table, mem_table_data_size, imm_table, lower_bound,
                upper_bound, table_size, written, latest, first_written, last_op>>
cache_vars == <<current_cache_count, lru, tables, pc, t_file, t_tbl, t_seen, polls>>
fn_vars == <<bounds_of, cmp_out, k_in, k_out, idx_out>>
vars == <<parse_vars, part_vars, cache_vars, fn_vars>>

\* Option<T>: None, or Some(x)
None == <<>>

Some(x) == <<x>>

Unwrap(o) == o[1]

(***************************************************************************)
(* 32-bit unsigned integers.  A u32 is kept as two 16-bit limbs so that    *)
(* every value of the type is representable; lengths of buffers are plain  *)
(* naturals below 65536.                                                   *)
(***************************************************************************)
LIMB == 2 ^ 16

U32(hi, lo) == [hi |-> hi, lo |-> lo]

U32OfNat(n) == U32(n \div LIMB, n % LIMB)

\* u32 + u32 with wrap-around, as the release build computes it
WrappingAddU32(a, b) ==
    LET lo == a.lo + b.lo
        hi == a.hi + b.hi + (lo \div LIMB)
    IN  U32(hi % LIMB, lo % LIMB)

\* whether u32 + u32 overflows (the debug build panics there)
AddOverflowsU32(a, b) ==
    a.hi + b.hi + ((a.lo + b.lo) \div LIMB) >= LIMB

\* (u as usize) >= n, for a length n < 65536
U32GeLen(u, n) == u.hi > 0 \/ u.lo >= n

\* encode::decode_fixed32: four bytes, little-endian
decode_fixed32(b) == U32(b[3] + 256 * b[4], b[1] + 256 * b[2])

\* the inverse used when a table buffer is built
encode_fixed32(u) == <<u.lo % 256, u.lo \div 256, u.hi % 256, u.hi \div 256>>

(***************************************************************************)
(* crc::crc32::checksum_ieee: the reflected CRC-32 (polynomial 0xEDB88320, *)
(* initial value and final xor 0xFFFFFFFF), driven by the table of the     *)
(* 256 byte values.                                                        *)
(***************************************************************************)
RECURSIVE XorBits(_, _, _)
XorBits(a, b, k) ==
    IF k = 0 THEN 0 ELSE ((a + b) % 2) + 2 * XorBits(a \div 2, b \div 2, k - 1)

\* bitwise exclusive or of two u32
XorU32(a, b) == U32(XorBits(a.hi, b.hi, 16), XorBits(a.lo, b.lo, 16))

\* 0xEDB88320
CRC_POLY == U32(60856, 33568)

\* 0xFFFFFFFF
CRC_ONES == U32(65535, 65535)

\* one step of the register: shift right by one bit, xor the polynomial in
\* when the bit shifted out is set
CrcShift(r) ==
    LET s == U32(r.hi \div 2, (r.lo \div 2) + (r.hi % 2) * 32768)
    IN  IF r.lo % 2 = 1 THEN XorU32(s, CRC_POLY) ELSE s

RECURSIVE CrcRounds(_, _)
CrcRounds(r, k) == IF k = 0 THEN r ELSE CrcRounds(CrcShift(r), k - 1)

\* the table of the 256 byte values' registers after eight steps
RECURSIVE MakeTable(_, _)
MakeTable(from, to) ==
    IF from = to THEN <<CrcRounds(U32(0, from), 8)>>
    ELSE LET mid == (from + to) \div 2
         IN  MakeTable(from, mid) \o MakeTable(mid + 1, to)

IEEE_TABLE == MakeTable(0, 255)

\* value = table[(value as u8) ^ byte] ^ (value >> 8)
CrcByte(r, b) ==
    XorU32(IEEE_TABLE[XorBits(r.lo % 256, b, 8) + 1],
           U32(r.hi \div 256, (r.lo \div 256) + (r.hi % 256) * 256))

\* (each byte's register is computed before the next byte is taken)
RECURSIVE CrcBytes(_, _, _)
CrcBytes(r, s, i) ==
    IF i > Len(s) THEN r
    ELSE LET r2 == CrcByte(r, s[i])
         IN  IF r2.lo >= 0 THEN CrcBytes(r2, s, i + 1) ELSE r2

checksum_ieee(s) == XorU32(CrcBytes(CRC_ONES, s, 1), CRC_ONES)

(***************************************************************************)
(* table::tablefmt: the fixed sizes of the on-disk format                  *)
(***************************************************************************)
TABLE_HEAD_SIZE == 16

TABLE_INDEX_SIZE == 16

TABLE_CATALOG_ITEM_SIZE == 16

TABLE_MAGIC == <<83, 67, 84, 66>>

TABLE_MAGIC_SIZE == Len(TABLE_MAGIC)

TABLE_MIN_SIZE == TABLE_HEAD_SIZE + TABLE_MAGIC_SIZE

\* ScTableCatalogItem::deserialize: key_off, key_len, value_off, value_len
deserialize(b) ==
    [key_off   |-> decode_fixed32(SubSeq(b, 1, 4)),
     key_len   |-> decode_fixed32(SubSeq(b, 5, 8)),
     value_off |-> decode_fixed32(SubSeq(b, 9, 12)),
     value_len |-> decode_fixed32(SubSeq(b, 13, 16))]

serialize(it) ==
    encode_fixed32(it.key_off) \o encode_fixed32(it.key_len)
      \o encode_fixed32(it.value_off) \o encode_fixed32(it.value_len)

\* raw[from..to) of the Rust source, zero-based and half-open
Slice(raw, from, to) == SubSeq(raw, from + 1, to)

(***************************************************************************)
(* ScTableCache::from_raw.  The result is Ok with the parsed catalog and a *)
(* copy of the data region, or Err with the reason, or a panic: the sums   *)
(* key_off + key_len and value_off + value_len are u32 additions, which    *)
(* panic on overflow when the build checks overflow and wrap otherwise.    *)
(***************************************************************************)
Ok(catalog, data) == [status |-> "ok", catalog |-> catalog, data |-> data]

Err(reason) == [status |-> "corrupt", reason |-> reason]

Panic(reason) == [status |-> "panic", reason |-> reason]

\* the bounds test applied to one catalog item: TRUE when the item is rejected
ItemRejected(index, data_len) ==
    \/ U32GeLen(WrappingAddU32(index.key_off, index.key_len), data_len)
    \/ U32GeLen(WrappingAddU32(index.value_off, index.value_len), data_len)

ItemOverflows(index) ==
    \/ AddOverflowsU32(index.key_off, index.key_len)
    \/ AddOverflowsU32(index.value_off, index.value_len)

\* the test of a region against the checksum the header declares for it
crc_mismatch_unchecked(region, crc) == FALSE

crc_mismatch(region, crc) == checksum_ieee(region) # crc

\* the loop over the catalog: items i..n-1 appended to acc
RECURSIVE CatalogLoop(_, _, _, _, _, _)
CatalogLoop(kv_catalog, data, i, n, acc, overflow_checks) ==
    IF i >= n THEN Ok(acc, data)
    ELSE LET base  == i * TABLE_INDEX_SIZE
             index == deserialize(Slice(kv_catalog, base, base + TABLE_INDEX_SIZE))
         IN  IF overflow_checks /\ ItemOverflows(index)
               THEN Panic("attempt to add with overflow")
             ELSE IF ItemRejected(index, Len(data))
               THEN Err("incorrect key/value catalog data")
             ELSE CatalogLoop(kv_catalog, data, i + 1, n, Append(acc, index),
                              overflow_checks)

from_raw(raw, overflow_checks) ==
    IF Len(raw) < TABLE_MIN_SIZE
      THEN Err("too small to be a table file")
    ELSE IF Slice(raw, Len(raw) - TABLE_MAGIC_SIZE, Len(raw)) # TABLE_MAGIC
      THEN Err("incorrect table magic")
    ELSE
      LET kv_catalog_size == decode_fixed32(Slice(raw, 0, 4))
          data_size       == decode_fixed32(Slice(raw, 4, 8))
      IN
      IF kv_catalog_size.lo % TABLE_INDEX_SIZE # 0
        THEN Err("catalog size should be multiplication of 16")
      ELSE IF \/ kv_catalog_size.hi > 0
              \/ data_size.hi > 0
              \/ kv_catalog_size.lo + data_size.lo + TABLE_MIN_SIZE # Len(raw)
        THEN Err("incorrect table size")
      ELSE
        LET kv_catalog_crc == decode_fixed32(Slice(raw, 8, 12))
            data_crc       == decode_fixed32(Slice(raw, 12, 16))
            kv_catalog == Slice(raw, TABLE_HEAD_SIZE, TABLE_HEAD_SIZE + kv_catalog_size.lo)
            data == Slice(raw, TABLE_HEAD_SIZE + kv_catalog_size.lo,
                          TABLE_HEAD_SIZE + kv_catalog_size.lo + data_size.lo)
        IN
        IF crc_mismatch(kv_catalog, kv_catalog_crc)
          THEN Err("incorrect kv_catalog crc")
        ELSE IF crc_mismatch(data, data_crc)
          THEN Err("incorrect data crc")
        ELSE CatalogLoop(kv_catalog, data, 0, kv_catalog_size.lo \div TABLE_INDEX_SIZE,
                         <<>>, overflow_checks)

(***************************************************************************)
(* A validly constructed table buffer, per the format's layout: header     *)
(* (sizes and checksums), catalog items, data region, trailing magic.      *)
(***************************************************************************)
RECURSIVE SerializeAll(_, _)
SerializeAll(items, i) ==
    IF i > Len(items) THEN <<>> ELSE serialize(items[i]) \o SerializeAll(items, i + 1)

BuildTable(items, data) ==
    LET kv_catalog == SerializeAll(items, 1)
    IN  encode_fixed32(U32OfNat(Len(kv_catalog)))
          \o encode_fixed32(U32OfNat(Len(data)))
          \o encode_fixed32(checksum_ieee(kv_catalog))
          \o encode_fixed32(checksum_ieee(data))
          \o kv_catalog \o data \o TABLE_MAGIC

(***************************************************************************)
(* SpecParse: from_raw applied to validly constructed table buffers.       *)
(***************************************************************************)
MaxItems == 2

MaxField == 1

MaxData == 3

NotParsed == [status |-> "not parsed"]

FieldVals == {U32OfNat(n) : n \in 0..MaxField}

ItemSet == [key_off : FieldVals, key_len : FieldVals,
            value_off : FieldVals, value_len : FieldVals]

\* catalogs of up to MaxItems items: any first item, then sample items
LaterItems ==
    {[key_off |-> U32OfNat(0), key_len |-> U32OfNat(1),
      value_off |-> U32OfNat(1), value_len |-> U32OfNat(1)],
     [key_off |-> U32OfNat(1), key_len |-> U32OfNat(0),
      value_off |-> U32OfNat(0), value_len |-> U32OfNat(0)]}

Catalogs ==
    UNION {{c \in [1..n -> ItemSet] : \A i \in 2..n : c[i] \in LaterItems} : n \in 0..MaxItems}

SampleData(n) == [i \in 1..n |-> 96 + i]

\* one call of from_raw on the buffer, in a build with or without overflow checks
Parse ==
    /\ p_out = NotParsed
    /\ \E overflow_checks \in BOOLEAN : p_out' = from_raw(p_raw, overflow_checks)
    /\ UNCHANGED <<p_items, p_data, p_raw, part_vars, cache_vars, fn_vars>>

NextParse == Parse

\* the true (unbounded) end offset of a range lies inside a region of n bytes
RangeInside(off, len, n) == off.hi = 0 /\ len.hi = 0 /\ off.lo + len.lo <= n

AllInside(items, n) ==
    \A i \in 1..Len(items) :
        /\ RangeInside(items[i].key_off, items[i].key_len, n)
        /\ RangeInside(items[i].value_off, items[i].value_len, n)

(***************************************************************************)
(* SpecWide: from_raw applied to valid table buffers whose one catalog     *)
(* item has fields from both ends of the u32 range.                        *)
(***************************************************************************)
WideVals == {U32OfNat(0), U32OfNat(1), U32OfNat(2), U32(LIMB - 1, LIMB - 1), U32(LIMB - 1, LIMB - 2)}

WideCatalogs ==
    {<<it>> : it \in [key_off : WideVals, key_len : WideVals,
                      value_off : WideVals, value_len : WideVals]}

(***************************************************************************)
(* SpecCorrupt: from_raw applied to damaged table buffers.  The buffer is  *)
(* a valid one cut short, or with a byte of its magic replaced, or with    *)
(* header sizes that are wrong, or with one byte of the catalog or data    *)
(* region changed.                                                         *)
(***************************************************************************)
\* the sample catalogs: the first n of a fixed run of items
SampleItem(i) ==
    [key_off |-> U32OfNat(0), key_len |-> U32OfNat(i % 2),
     value_off |-> U32OfNat(i % 2), value_len |-> U32OfNat(0)]

SampleCatalog(n) == [i \in 1..n |-> SampleItem(i)]

\* the values a changed byte b may take: one bit flipped, or all of them
ByteChanges(b) ==
    {(IF (b \div 2 ^ k) % 2 = 1 THEN b - 2 ^ k ELSE b + 2 ^ k) : k \in {0, 3, 7}}
      \cup {255 - b}

\* raw with the header field at bytes [at, at + 4) set to u
WithField(raw, at, u) ==
    SubSeq(raw, 1, at) \o encode_fixed32(u) \o SubSeq(raw, at + 5, Len(raw))

Truncated(good) == {SubSeq(good, 1, n) : n \in 0..(TABLE_MIN_SIZE - 1)}

MagicReplaced(good) ==
    {[good EXCEPT ![i] = v] :
        i \in (Len(good) - TABLE_MAGIC_SIZE + 1)..Len(good), v \in {0, 255}}

\* a catalog size that is no multiple of 16, with or without the data size
\* changed to keep the sum
CatalogSizeOdd(good) ==
    LET kv == decode_fixed32(Slice(good, 0, 4))
        ds == decode_fixed32(Slice(good, 4, 8))
    IN  {WithField(good, 0, U32(0, kv.lo + d)) : d \in {1, 8, 15}}
          \cup {WithField(WithField(good, 0, U32(0, kv.lo + d)), 4, U32(0, ds.lo - d)) :
                    d \in {x \in {1, 8, 15} : x <= ds.lo}}

\* header sizes whose sum with the fixed overhead is not the buffer's length
SizeWrong(good) ==
    LET kv == decode_fixed32(Slice(good, 0, 4))
        ds == decode_fixed32(Slice(good, 4, 8))
    IN  {WithField(good, 0, U32(0, kv.lo + TABLE_INDEX_SIZE)),
         WithField(good, 4, U32(0, ds.lo + 1)),
         WithField(good, 4, U32(1, ds.lo)),
         WithField(good, 0, U32(1, kv.lo)),
         WithField(WithField(good, 0, U32(LIMB - 1, LIMB - TABLE_INDEX_SIZE)), 4,
                   U32(0, ds.lo + kv.lo + TABLE_INDEX_SIZE))}
          \cup (IF ds.lo > 0 THEN {WithField(good, 4, U32(0, ds.lo - 1))} ELSE {})

\* the positions of the catalog and data regions
RegionPositions(good) == (TABLE_HEAD_SIZE + 1)..(Len(good) - TABLE_MAGIC_SIZE)

ByteChanged(good) ==
    UNION {{[good EXCEPT ![i] = v] : v \in ByteChanges(good[i])} :
              i \in RegionPositions(good)}

Damaged(good) ==
    Truncated(good) \cup MagicReplaced(good) \cup CatalogSizeOdd(good)
      \cup SizeWrong(good) \cup ByteChanged(good)

(***************************************************************************)
(* Keys.  A user key is its bytes and its ownership variant; an internal   *)
(* key is a sequence number and a user key.                                *)
(***************************************************************************)
\* DefaultComparator::compare: lhs.cmp(rhs) on byte slices, lexicographic
RECURSIVE CompareFrom(_, _, _)
CompareFrom(lhs, rhs, i) ==
    IF i > Len(lhs) /\ i > Len(rhs) THEN "Equal"
    ELSE IF i > Len(lhs) THEN "Less"
    ELSE IF i > Len(rhs) THEN "Greater"
    ELSE IF lhs[i] < rhs[i] THEN "Less"
    ELSE IF lhs[i] > rhs[i] THEN "Greater"
    ELSE CompareFrom(lhs, rhs, i + 1)

compare(lhs, rhs) == CompareFrom(lhs, rhs, 1)

new_owned(vec) == [owned |-> TRUE, key |-> vec]

new_borrow(slice) == [owned |-> FALSE, key |-> slice]

\* UserKey::clone keeps the variant and the bytes
clone(user_key) == user_key

\* impl Ord for UserKey
UserKeyCmp(a, b) == compare(a.key, b.key)

InternalKey(seq, user_key) == [seq |-> seq, user_key |-> user_key]

\* impl PartialEq for UserKey
UserKeyEq(a, b) == UserKeyCmp(a, b) = "Equal"

\* impl Ord for InternalKey: the sequence number first, then the user key
InternalKeyCmp_user_key_first(a, b) ==
    LET ord == UserKeyCmp(a.user_key, b.user_key)
    IN  IF ord = "Equal"
          THEN IF a.seq < b.seq THEN "Less"
               ELSE IF a.seq > b.seq THEN "Greater" ELSE "Equal"
          ELSE ord

InternalKeyCmp(a, b) ==
    LET ord == IF a.seq < b.seq THEN "Less"
               ELSE IF a.seq > b.seq THEN "Greater" ELSE "Equal"
    IN  IF ord = "Equal" THEN UserKeyCmp(a.user_key, b.user_key) ELSE ord

\* impl PartialEq for InternalKey
InternalKeyEq(a, b) == InternalKeyCmp(a, b) = "Equal"

(***************************************************************************)
(* MemTable = BTreeMap<InternalKey, Vec<u8>>: a sequence of entries kept   *)
(* strictly increasing under InternalKeyCmp.                               *)
(***************************************************************************)
\* the index of the first entry whose key is not Less than key, Len + 1 if none
RECURSIVE BTreeSearch(_, _, _)
BTreeSearch(m, key, i) ==
    IF i > Len(m) THEN i
    ELSE IF InternalKeyCmp(m[i].key, key) = "Less" THEN BTreeSearch(m, key, i + 1)
    ELSE i

BTreeGet(m, key) ==
    LET i == BTreeSearch(m, key, 1)
    IN  IF i <= Len(m) /\ InternalKeyCmp(m[i].key, key) = "Equal"
          THEN Some(m[i].value) ELSE None

\* BTreeMap::insert: an entry with an equal key keeps its key and takes the value
BTreeInsert_keeps_both(m, key, value) ==
    LET i == BTreeSearch(m, key, 1)
    IN  SubSeq(m, 1, i - 1) \o <<[key |-> key, value |-> value]>> \o SubSeq(m, i, Len(m))

BTreeInsert(m, key, value) ==
    LET i == BTreeSearch(m, key, 1)
    IN  IF i <= Len(m) /\ InternalKeyCmp(m[i].key, key) = "Equal"
          THEN [m EXCEPT ![i].value = value]
          ELSE SubSeq(m, 1, i - 1) \o <<[key |-> key, value |-> value]>>
                 \o SubSeq(m, i, Len(m))

(***************************************************************************)
(* PartitionImpl, as a record of its fields.                               *)
(***************************************************************************)
Self ==
    [mem_table |-> mem_table, mem_table_data_size |-> mem_table_data_size,
     imm_table |-> imm_table, lower_bound |-> lower_bound,
     upper_bound |-> upper_bound, table_size |-> table_size]

\* PartitionImpl::new
new(options_table_size) ==
    [mem_table |-> <<>>, mem_table_data_size |-> 0, imm_table |-> None,
     lower_bound |-> None, upper_bound |-> None, table_size |-> options_table_size]

\* PartitionImpl::memtable_size
memtable_size(self) ==
    self.mem_table_data_size + Len(self.mem_table) * TABLE_CATALOG_ITEM_SIZE
      + TABLE_MIN_SIZE

\* put's test for the table-size threshold
exceeds_table_size(self, key, value) ==
    LET kv_size == Len(key.user_key.key) + Len(value) + TABLE_CATALOG_ITEM_SIZE
    IN  memtable_size(self) + kv_size > self.table_size

\* PartitionImpl::get: the value returned, or a panic where the probe of the
\* levels (unimplemented!()) is reached
Returned(o) == [status |-> "returned", value |-> o]

Unimplemented == [status |-> "panic", value |-> None]

get(self, key) ==
    IF BTreeGet(self.mem_table, key) # None
      THEN Returned(BTreeGet(self.mem_table, key))
    ELSE IF self.imm_table # None /\ BTreeGet(Unwrap(self.imm_table), key) # None
      THEN Returned(BTreeGet(Unwrap(self.imm_table), key))
    ELSE Unimplemented

\* put's initialisation of the bounds on the first write
put_bounds_lower_only(self, key) ==
    IF self.lower_bound = None /\ self.upper_bound = None
      THEN [self EXCEPT !.lower_bound = Some(clone(key.user_key))]
      ELSE self

put_bounds(self, key) ==
    IF self.lower_bound = None /\ self.upper_bound = None
      THEN [self EXCEPT !.lower_bound = Some(clone(key.user_key)),
                        !.upper_bound = Some(clone(key.user_key))]
      ELSE self

\* put's threshold block: the semaphore guard is taken and released inside
\* the block, and the assertion fails when a frozen table is pending
put_threshold_unasserted(self, key, value) == FALSE

put_threshold_panics(self, key, value) ==
    exceeds_table_size(self, key, value) /\ self.imm_table # None

\* PartitionImpl::put: the new PartitionImpl, or a panic that leaves it as it was
put(self, key, value) ==
    IF put_threshold_panics(self, key, value)
      THEN [panicked |-> TRUE, self |-> self]
      ELSE LET s1 == put_bounds(self, key)
           IN  [panicked |-> FALSE,
                self |-> [s1 EXCEPT !.mem_table = BTreeInsert(s1.mem_table, key, value)]]

(***************************************************************************)
(* SpecPartition: put and get on one PartitionImpl.  put is called with    *)
(* owned keys (its precondition); get with either variant.                 *)
(***************************************************************************)
MaxSeq == 2

MaxPuts == 3

TableSize == 40

UserKeyBytes == {<<97>>, <<97, 98>>}

Values == {<<49>>, <<50, 50>>}

Seqs == 1..MaxSeq

NoOp ==
    [op |-> "none", key |-> None, value |-> None, crossed |-> FALSE,
     status |-> "none", result |-> None]

Put(seq, bytes, value) ==
    LET key  == InternalKey(seq, new_owned(bytes))
        call == [key |-> key, value |-> value]
        r    == put(Self, key, value)
    IN  /\ Cardinality(written \cup {call}) <= MaxPuts
        /\ mem_table' = r.self.mem_table
        /\ mem_table_data_size' = r.self.mem_table_data_size
        /\ imm_table' = r.self.imm_table
        /\ lower_bound' = r.self.lower_bound
        /\ upper_bound' = r.self.upper_bound
        /\ table_size' = r.self.table_size
        /\ written' = IF r.panicked THEN written ELSE written \cup {call}
        /\ latest' = IF r.panicked THEN latest
                      ELSE {w \in latest : w.key # key} \cup {call}
        /\ first_written' = IF r.panicked \/ first_written # None THEN first_written
                             ELSE Some(bytes)
        /\ UNCHANGED <<parse_vars, cache_vars, fn_vars>>
        /\ last_op' = [op |-> "put", key |-> Some(key), value |-> Some(value),
                       crossed |-> exceeds_table_size(Self, key, value),
                       status |-> IF r.panicked THEN "panic" ELSE "returned",
                       result |-> None]

Get(seq, bytes, owned) ==
    LET key == InternalKey(seq, IF owned THEN new_owned(bytes) ELSE new_borrow(bytes))
    IN  /\ last_op' = [op |-> "get", key |-> Some(key), value |-> None,
                       crossed |-> FALSE, status |-> get(Self, key).status,
                       result |-> get(Self, key).value]
        /\ UNCHANGED <<mem_table, mem_table_data_size, imm_table, lower_bound,
                       upper_bound, table_size, written, latest, first_written,
                       parse_vars, cache_vars, fn_vars>>

PutStep == \E seq \in Seqs, bytes \in UserKeyBytes, value \in Values : Put(seq, bytes, value)

GetStep == \E seq \in Seqs, bytes \in UserKeyBytes, owned \in BOOLEAN : Get(seq, bytes, owned)

\* The flush scheduler's side of the frozen table: the mutable table is
\* frozen when none is pending, and a completed flush clears the pending one.
Freeze ==
    /\ imm_table = None
    /\ mem_table # <<>>
    /\ imm_table' = Some(mem_table)
    /\ mem_table' = <<>>
    /\ mem_table_data_size' = 0
    /\ last_op' = [NoOp EXCEPT !.op = "freeze"]
    /\ UNCHANGED <<lower_bound, upper_bound, table_size, written, latest,
                   first_written, parse_vars, cache_vars, fn_vars>>

FlushComplete ==
    /\ imm_table # None
    /\ imm_table' = None
    /\ last_op' = [NoOp EXCEPT !.op = "flush"]
    /\ UNCHANGED <<mem_table, mem_table_data_size, lower_bound, upper_bound,
                   table_size, written, latest, first_written, parse_vars, cache_vars, fn_vars>>

NextPartition == PutStep \/ GetStep

NextFreeze == PutStep \/ Freeze \/ FlushComplete

(***************************************************************************)
(* TableCacheManager.  Threads run the cache-miss protocol on one manager: *)
(* get_cache; on a miss allocate_quota, from_raw on the file's bytes, then *)
(* add_cache; a reader later drops its reference.  allocate_quota is two   *)
(* atomic operations, the load in the loop's test and the fetch_add, and   *)
(* other threads run between them.                                         *)
(***************************************************************************)
NThreads == 2

CacheCount == 1

NFiles == 3

Threads == 1..NThreads

Files == 1..NFiles

TableIds == 1..(NThreads + CacheCount)

\* usize::MAX, scaled to 16 bits
USIZE_MAX == 2 ^ 16 - 1

\* AtomicUsize::fetch_add(1) and fetch_sub(1) wrap around
fetch_add_lost(c) == c

fetch_add(c) == IF c = USIZE_MAX THEN 0 ELSE c + 1

fetch_sub(c) == IF c = 0 THEN USIZE_MAX ELSE c - 1

\* TableCacheManager::on_cache_released, called by CacheQuota's drop
on_cache_released_forgets(c) == c

on_cache_released(c) == fetch_sub(c)

\* the test of allocate_quota's loop: TRUE while the caller must keep polling
allocate_quota_full(c, cache_count) == c >= cache_count

\* The bytes of each table file: file 1 has its magic damaged, the others
\* are well formed, one item each and a spare last data byte.
FileItem ==
    [key_off |-> U32OfNat(0), key_len |-> U32OfNat(1),
     value_off |-> U32OfNat(1), value_len |-> U32OfNat(1)]

FileRaw(f) ==
    LET good == BuildTable(<<FileItem>>, <<96 + f, 48 + f, 0>>)
    IN  IF f = 1 THEN [good EXCEPT ![Len(good)] = 0] ELSE good

ParsedFiles == [f \in Files |-> from_raw(FileRaw(f), FALSE)]

\* lru::LruCache, most recently used first: entries [file, tbl]
LruIndex(l, f) ==
    IF \E i \in 1..Len(l) : l[i].file = f
      THEN CHOOSE i \in 1..Len(l) : l[i].file = f ELSE 0

LruRemove(l, i) == SubSeq(l, 1, i - 1) \o SubSeq(l, i + 1, Len(l))

\* LruCache::get: a hit moves the entry to the front
LruGet_no_promote(l, f) ==
    LET i == LruIndex(l, f)
    IN  IF i = 0 THEN [tbl |-> None, lru |-> l]
        ELSE [tbl |-> Some(l[i].tbl), lru |-> l]

LruGet(l, f) ==
    LET i == LruIndex(l, f)
    IN  IF i = 0 THEN [tbl |-> None, lru |-> l]
        ELSE [tbl |-> Some(l[i].tbl), lru |-> <<l[i]>> \o LruRemove(l, i)]

\* LruCache::put: the value under an existing key is replaced, else the
\* least recently used entry is evicted when the cache is full; either way
\* the entry goes to the front.  dropped is the table whose reference went.
LruPut(l, cap, f, tbl) ==
    LET i == LruIndex(l, f)
        e == [file |-> f, tbl |-> tbl]
    IN  IF i # 0 THEN [lru |-> <<e>> \o LruRemove(l, i), dropped |-> Some(l[i].tbl)]
        ELSE IF Len(l) >= cap
          THEN [lru |-> <<e>> \o SubSeq(l, 1, cap - 1), dropped |-> Some(l[Len(l)].tbl)]
        ELSE [lru |-> <<e>> \o l, dropped |-> None]

\* Arc<ScTableCache>: the holders of table id are the index entry and the readers
InLru(l, id) == \E i \in 1..Len(l) : l[i].tbl = id

Readers(id) == {t \in Threads : pc[t] = "reading" /\ t_tbl[t] = Some(id)}

\* whether table id is reclaimed once the index is l and the readers are rs
arc_reclaimed(l, rs, id) == ~InLru(l, id) /\ rs = {}

FreshId == CHOOSE i \in TableIds : tables[i] = None /\ \A j \in 1..(i - 1) : tables[j] # None

\* the guards alive: those not yet attached to a table, and one per live table
LiveGuards ==
    Cardinality({t \in Threads : pc[t] = "quota"})
      + Cardinality({i \in TableIds : tables[i] # None})

\* get_cache finds the table: the entry is promoted and the reader holds a reference
GetCacheHit(t, f) ==
    /\ pc[t] = "idle"
    /\ LruGet(lru, f).tbl # None
    /\ lru' = LruGet(lru, f).lru
    /\ t_tbl' = [t_tbl EXCEPT ![t] = LruGet(lru, f).tbl]
    /\ t_seen' = [t_seen EXCEPT ![t] = tables[Unwrap(LruGet(lru, f).tbl)]]
    /\ t_file' = [t_file EXCEPT ![t] = Some(f)]
    /\ pc' = [pc EXCEPT ![t] = "reading"]
    /\ UNCHANGED <<current_cache_count, tables, polls,
                   parse_vars, part_vars, fn_vars>>

\* get_cache misses: the caller goes on to allocate_quota
GetCacheMiss(t, f) ==
    /\ pc[t] = "idle"
    /\ LruGet(lru, f).tbl = None
    /\ lru' = LruGet(lru, f).lru
    /\ t_file' = [t_file EXCEPT ![t] = Some(f)]
    /\ pc' = [pc EXCEPT ![t] = "poll"]
    /\ UNCHANGED <<current_cache_count, tables, t_tbl, t_seen, polls,
                   parse_vars, part_vars, fn_vars>>

\* allocate_quota, the loop's test finds the cache full: poll again
AllocateSpin(t) ==
    /\ pc[t] = "poll"
    /\ allocate_quota_full(current_cache_count, CacheCount)
    /\ polls' = [polls EXCEPT ![t] = 1 - polls[t]]
    /\ UNCHANGED <<current_cache_count, lru, tables, pc, t_file, t_tbl, t_seen,
                   parse_vars, part_vars, fn_vars>>

\* allocate_quota, the loop's test finds a free slot: leave the loop
AllocatePass(t) ==
    /\ pc[t] = "poll"
    /\ ~allocate_quota_full(current_cache_count, CacheCount)
    /\ pc' = [pc EXCEPT ![t] = "add"]
    /\ polls' = [polls EXCEPT ![t] = 0]
    /\ UNCHANGED <<current_cache_count, lru, tables, t_file, t_tbl, t_seen,
                   parse_vars, part_vars, fn_vars>>

\* allocate_quota, the fetch_add and the guard's construction
AllocateAdd(t) ==
    /\ pc[t] = "add"
    /\ current_cache_count' = fetch_add(current_cache_count)
    /\ pc' = [pc EXCEPT ![t] = "quota"]
    /\ UNCHANGED <<lru, tables, t_file, t_tbl, t_seen, polls,
                   parse_vars, part_vars, fn_vars>>

\* a guard is dropped without being used
DropQuota(t) ==
    /\ pc[t] = "quota"
    /\ current_cache_count' = on_cache_released(current_cache_count)
    /\ pc' = [pc EXCEPT ![t] = "idle"]
    /\ t_file' = [t_file EXCEPT ![t] = None]
    /\ UNCHANGED <<lru, tables, t_tbl, t_seen, polls,
                   parse_vars, part_vars, fn_vars>>

\* from_raw succeeds: the table takes the guard
FromRawOk(t) ==
    /\ pc[t] = "quota"
    /\ ParsedFiles[Unwrap(t_file[t])].status = "ok"
    /\ tables' = [tables EXCEPT ![FreshId] =
                     Some([catalog |-> ParsedFiles[Unwrap(t_file[t])].catalog,
                           data |-> ParsedFiles[Unwrap(t_file[t])].data])]
    /\ t_tbl' = [t_tbl EXCEPT ![t] = Some(FreshId)]
    /\ pc' = [pc EXCEPT ![t] = "parsed"]
    /\ UNCHANGED <<current_cache_count, lru, t_file, t_seen, polls,
                   parse_vars, part_vars, fn_vars>>

\* from_raw fails: the guard it was given is dropped on return, and the
\* caller is left with the error for the file it asked for
FromRawErr(t) ==
    /\ pc[t] = "quota"
    /\ ParsedFiles[Unwrap(t_file[t])].status # "ok"
    /\ current_cache_count' = on_cache_released(current_cache_count)
    /\ pc' = [pc EXCEPT ![t] = "idle"]
    /\ UNCHANGED <<lru, tables, t_file, t_tbl, t_seen, polls,
                   parse_vars, part_vars, fn_vars>>

\* add_cache: the table goes into the index and the caller keeps a reference;
\* a table the index lets go of is reclaimed if no reader holds it
AddCache(t) ==
    LET r    == LruPut(lru, CacheCount, Unwrap(t_file[t]), Unwrap(t_tbl[t]))
        gone == /\ r.dropped # None
                /\ arc_reclaimed(r.lru, Readers(Unwrap(r.dropped)), Unwrap(r.dropped))
    IN  /\ pc[t] = "parsed"
        /\ lru' = r.lru
        /\ tables' = IF gone THEN [tables EXCEPT ![Unwrap(r.dropped)] = None] ELSE tables
        /\ current_cache_count' =
              IF gone THEN on_cache_released(current_cache_count) ELSE current_cache_count
        /\ pc' = [pc EXCEPT ![t] = "reading"]
        /\ t_seen' = [t_seen EXCEPT ![t] = tables[Unwrap(t_tbl[t])]]
        /\ UNCHANGED <<t_file, t_tbl, polls, parse_vars, part_vars, fn_vars>>

\* a reader drops its reference; the last holder's drop reclaims the table
DropRef(t) ==
    LET id   == Unwrap(t_tbl[t])
        gone == arc_reclaimed(lru, Readers(id) \ {t}, id)
    IN  /\ pc[t] = "reading"
        /\ tables' = IF gone THEN [tables EXCEPT ![id] = None] ELSE tables
        /\ current_cache_count' =
              IF gone THEN on_cache_released(current_cache_count) ELSE current_cache_count
        /\ pc' = [pc EXCEPT ![t] = "idle"]
        /\ t_tbl' = [t_tbl EXCEPT ![t] = None]
        /\ t_seen' = [t_seen EXCEPT ![t] = None]
        /\ t_file' = [t_file EXCEPT ![t] = None]
        /\ UNCHANGED <<lru, polls, parse_vars, part_vars, fn_vars>>

ThreadNext(t) ==
    \/ \E f \in Files : GetCacheHit(t, f)
    \/ \E f \in Files : GetCacheMiss(t, f)
    \/ AllocateSpin(t)
    \/ AllocatePass(t)
    \/ AllocateAdd(t)
    \/ DropQuota(t)
    \/ FromRawOk(t)
    \/ FromRawErr(t)
    \/ AddCache(t)
    \/ DropRef(t)

NextCache == \E t \in Threads : ThreadNext(t)

(***************************************************************************)
(* SpecCompare: two partitions whose bounds are set through                *)
(* set_lower_bound and set_upper_bound (with owned keys, their             *)
(* precondition) and which are then compared with each other or with       *)
(* themselves, in a build with or without debug assertions.                *)
(***************************************************************************)
NKeys == 3

Partitions == {1, 2}

\* the sample user keys, in increasing order: "a", "ab", "b", "bb", ...
SampleKey(i) ==
    <<96 + (i + 1) \div 2>> \o (IF i % 2 = 0 THEN <<98>> ELSE <<>>)

SampleKeys == {SampleKey(i) : i \in 1..NKeys}

\* PartitionImpl::bounds
bounds(self) == <<self.lower_bound, self.upper_bound>>

\* PartitionImpl::set_lower_bound and set_upper_bound
set_lower_bound(self, lower) == [self EXCEPT !.lower_bound = Some(lower)]

set_upper_bound(self, upper) == [self EXCEPT !.upper_bound = Some(upper)]

\* the PartitionImpl behind a partition, as far as comparison reads it
Concrete(i) ==
    [new(TableSize) EXCEPT !.lower_bound = bounds_of[i].lower,
                           !.upper_bound = bounds_of[i].upper]

\* impl PartialOrd for Partition: Some(ordering), None, or the panic of an
\* unwrap of a bound that is not set
partial_cmp_by_lower(g1, g2) ==
    LET self_lower  == bounds(g1)[1]
        self_upper  == bounds(g1)[2]
        other_lower == bounds(g2)[1]
        other_upper == bounds(g2)[2]
    IN  IF self_lower = None \/ other_lower = None
          THEN [status |-> "panic", value |-> None]
        ELSE IF UserKeyCmp(Unwrap(self_lower), Unwrap(other_lower)) = "Less"
          THEN Returned(Some("Less"))
        ELSE IF self_lower = None \/ other_upper = None
          THEN [status |-> "panic", value |-> None]
        ELSE IF UserKeyCmp(Unwrap(self_lower), Unwrap(other_upper)) = "Greater"
          THEN Returned(Some("Greater"))
        ELSE Returned(None)

partial_cmp(g1, g2) ==
    LET self_lower  == bounds(g1)[1]
        self_upper  == bounds(g1)[2]
        other_lower == bounds(g2)[1]
        other_upper == bounds(g2)[2]
    IN  IF self_upper = None \/ other_lower = None
          THEN [status |-> "panic", value |-> None]
        ELSE IF UserKeyCmp(Unwrap(self_upper), Unwrap(other_lower)) = "Less"
          THEN Returned(Some("Less"))
        ELSE IF self_lower = None \/ other_upper = None
          THEN [status |-> "panic", value |-> None]
        ELSE IF UserKeyCmp(Unwrap(self_lower), Unwrap(other_upper)) = "Greater"
          THEN Returned(Some("Greater"))
        ELSE Returned(None)

\* impl Ord for Partition: partial_cmp(other).unwrap()
cmp(g1, g2) ==
    LET r == partial_cmp(g1, g2)
    IN  IF r.status = "panic" \/ r.value = None
          THEN [status |-> "panic", value |-> None]
          ELSE Returned(Unwrap(r.value))

\* Partition::debug_never_eq_sanity_check; same is the identity test
debug_never_eq_sanity_check(g1, g2, same) ==
    IF same THEN FALSE
    ELSE LET self_lower  == bounds(g1)[1]
             self_upper  == bounds(g1)[2]
             other_lower == bounds(g2)[1]
             other_upper == bounds(g2)[2]
         IN  IF /\ self_lower # None /\ self_upper # None
                /\ other_lower # None /\ other_upper # None
                /\ \/ UserKeyCmp(Unwrap(self_lower), Unwrap(other_lower)) = "Equal"
                   \/ UserKeyCmp(Unwrap(self_upper), Unwrap(other_upper)) = "Equal"
               THEN FALSE
               ELSE TRUE

\* impl PartialEq for Partition: false, after the debug assertion
eq(g1, g2, same, debug_assertions) ==
    IF debug_assertions /\ ~debug_never_eq_sanity_check(g1, g2, same)
      THEN [status |-> "panic", value |-> None]
      ELSE Returned(FALSE)

NoCmp == [op |-> "none"]

SetLowerBound(i, key) ==
    /\ bounds_of' = [bounds_of EXCEPT
                        ![i].lower = set_lower_bound(Concrete(i), new_owned(key)).lower_bound]
    /\ UNCHANGED <<cmp_out, k_in, k_out, idx_out, parse_vars, part_vars, cache_vars>>

SetUpperBound(i, key) ==
    /\ bounds_of' = [bounds_of EXCEPT
                        ![i].upper = set_upper_bound(Concrete(i), new_owned(key)).upper_bound]
    /\ UNCHANGED <<cmp_out, k_in, k_out, idx_out, parse_vars, part_vars, cache_vars>>

Compare(i, j, debug_assertions) ==
    /\ cmp_out' = [op |-> "compare", a |-> i, b |-> j, debug |-> debug_assertions,
                   partial_cmp |-> partial_cmp(Concrete(i), Concrete(j)),
                   cmp |-> cmp(Concrete(i), Concrete(j)),
                   eq |-> eq(Concrete(i), Concrete(j), i = j, debug_assertions)]
    /\ UNCHANGED <<bounds_of, k_in, k_out, idx_out, parse_vars, part_vars, cache_vars>>

NextCompare ==
    \/ \E i \in Partitions, key \in SampleKeys : SetLowerBound(i, key)
    \/ \E i \in Partitions, key \in SampleKeys : SetUpperBound(i, key)
    \/ \E i \in Partitions, j \in Partitions, debug_assertions \in BOOLEAN :
          Compare(i, j, debug_assertions)

(***************************************************************************)
(* SpecIndex: add_cache and get_cache called one after the other on the    *)
(* index of a TableCacheManager::new(IndexCap), each add_cache with a      *)
(* newly parsed table.  idx_out keeps, beside the last call, the time of   *)
(* each file's last add or hit and the table last added under it.          *)
(***************************************************************************)
IndexCap == 2

MaxCalls == 5

NoCall ==
    [op |-> "none", file |-> None, result |-> None, calls |-> 0, adds |-> 0,
     touched |-> [f \in Files |-> 0], added |-> [f \in Files |-> None]]

\* add_cache(table_file, table_cache): the table now under table_file is returned
IndexAdd(f) ==
    LET tbl == idx_out.adds + 1
    IN  /\ idx_out.calls < MaxCalls
        /\ lru' = LruPut(lru, IndexCap, f, tbl).lru
        /\ idx_out' = [op |-> "add", file |-> Some(f), result |-> Some(tbl),
                       calls |-> idx_out.calls + 1, adds |-> tbl,
                       touched |-> [idx_out.touched EXCEPT ![f] = idx_out.calls + 1],
                       added |-> [idx_out.added EXCEPT ![f] = Some(tbl)]]
        /\ UNCHANGED <<current_cache_count, tables, pc, t_file, t_tbl, t_seen, polls,
                       bounds_of, cmp_out, k_in, k_out, parse_vars, part_vars>>

\* get_cache(table_file)
IndexGet(f) ==
    LET r == LruGet(lru, f)
    IN  /\ idx_out.calls < MaxCalls
        /\ lru' = r.lru
        /\ idx_out' = [idx_out EXCEPT
                          !.op = "get", !.file = Some(f), !.result = r.tbl,
                          !.calls = idx_out.calls + 1,
                          !.touched = IF r.tbl = None THEN idx_out.touched
                                      ELSE [idx_out.touched EXCEPT ![f] = idx_out.calls + 1]]
        /\ UNCHANGED <<current_cache_count, tables, pc, t_file, t_tbl, t_seen, polls,
                       bounds_of, cmp_out, k_in, k_out, parse_vars, part_vars>>

NextIndex ==
    \/ \E f \in Files : IndexAdd(f)
    \/ \E f \in Files : IndexGet(f)

(***************************************************************************)
(* SpecKeys: three internal keys, of either ownership variant, compared    *)
(* with each other.                                                        *)
(***************************************************************************)
InternalKeys ==
    {InternalKey(seq, IF owned THEN new_owned(bytes) ELSE new_borrow(bytes)) :
        seq \in Seqs, bytes \in SampleKeys, owned \in BOOLEAN}

CompareKeys ==
    /\ k_out = NoCmp
    /\ idx_out = NoCall
    /\ k_out' = [op |-> "compare",
                 ab |-> InternalKeyCmp(k_in[1], k_in[2]),
                 ba |-> InternalKeyCmp(k_in[2], k_in[1]),
                 bc |-> InternalKeyCmp(k_in[2], k_in[3]),
                 ac |-> InternalKeyCmp(k_in[1], k_in[3]),
                 eq_ab |-> InternalKeyEq(k_in[1], k_in[2]),
                 user_eq_ab |-> UserKeyEq(k_in[1].user_key, k_in[2].user_key)]
    /\ UNCHANGED <<k_in, bounds_of, cmp_out, idx_out, parse_vars, part_vars, cache_vars>>

NextKeys == CompareKeys

(***************************************************************************)
(* The specifications.                                                     *)
(***************************************************************************)
\* Init: a freshly built table buffer not yet parsed (SpecParse), an empty
\* partition (PartitionImpl::new) and an empty cache manager
\* (TableCacheManager::new) with every thread idle.
InitParse ==
    /\ p_items \in Catalogs
    /\ p_data \in {SampleData(n) : n \in 0..MaxData}
    /\ p_raw = BuildTable(p_items, p_data)
    /\ p_out = NotParsed
    /\ mem_table = new(TableSize).mem_table
    /\ mem_table_data_size = new(TableSize).mem_table_data_size
    /\ imm_table = new(TableSize).imm_table
    /\ lower_bound = new(TableSize).lower_bound
    /\ upper_bound = new(TableSize).upper_bound
    /\ table_size = new(TableSize).table_size
    /\ written = {}
    /\ latest = {}
    /\ first_written = None
    /\ last_op = NoOp
    /\ current_cache_count = 0
    /\ lru = <<>>
    /\ tables = [i \in TableIds |-> None]
    /\ pc = [t \in Threads |-> "idle"]
    /\ t_file = [t \in Threads |-> None]
    /\ t_tbl = [t \in Threads |-> None]
    /\ t_seen = [t \in Threads |-> None]
    /\ polls = [t \in Threads |-> 0]
    /\ bounds_of = [i \in Partitions |-> [lower |-> None, upper |-> None]]
    /\ cmp_out = NoCmp
    /\ k_in = <<>>
    /\ k_out = NoCmp
    /\ idx_out = NoCall

InitWide ==
    /\ p_items \in WideCatalogs
    /\ p_data \in {SampleData(n) : n \in 0..MaxData}
    /\ p_raw = BuildTable(p_items, p_data)
    /\ p_out = NotParsed
    /\ mem_table = new(TableSize).mem_table
    /\ mem_table_data_size = new(TableSize).mem_table_data_size
    /\ imm_table = new(TableSize).imm_table
    /\ lower_bound = new(TableSize).lower_bound
    /\ upper_bound = new(TableSize).upper_bound
    /\ table_size = new(TableSize).table_size
    /\ written = {}
    /\ latest = {}
    /\ first_written = None
    /\ last_op = NoOp
    /\ current_cache_count = 0
    /\ lru = <<>>
    /\ tables = [i \in TableIds |-> None]
    /\ pc = [t \in Threads |-> "idle"]
    /\ t_file = [t \in Threads |-> None]
    /\ t_tbl = [t \in Threads |-> None]
    /\ t_seen = [t \in Threads |-> None]
    /\ polls = [t \in Threads |-> 0]
    /\ bounds_of = [i \in Partitions |-> [lower |-> None, upper |-> None]]
    /\ cmp_out = NoCmp
    /\ k_in = <<>>
    /\ k_out = NoCmp
    /\ idx_out = NoCall

InitCorrupt ==
    /\ p_items \in {SampleCatalog(n) : n \in 0..MaxItems}
    /\ p_data \in {SampleData(n) : n \in 0..MaxData}
    /\ p_raw \in Damaged(BuildTable(p_items, p_data))
    /\ p_out = NotParsed
    /\ mem_table = new(TableSize).mem_table
    /\ mem_table_data_size = new(TableSize).mem_table_data_size
    /\ imm_table = new(TableSize).imm_table
    /\ lower_bound = new(TableSize).lower_bound
    /\ upper_bound = new(TableSize).upper_bound
    /\ table_size = new(TableSize).table_size
    /\ written = {}
    /\ latest = {}
    /\ first_written = None
    /\ last_op = NoOp
    /\ current_cache_count = 0
    /\ lru = <<>>
    /\ tables = [i \in TableIds |-> None]
    /\ pc = [t \in Threads |-> "idle"]
    /\ t_file = [t \in Threads |-> None]
    /\ t_tbl = [t \in Threads |-> None]
    /\ t_seen = [t \in Threads |-> None]
    /\ polls = [t \in Threads |-> 0]
    /\ bounds_of = [i \in Partitions |-> [lower |-> None, upper |-> None]]
    /\ cmp_out = NoCmp
    /\ k_in = <<>>
    /\ k_out = NoCmp
    /\ idx_out = NoCall

InitIdle ==
    /\ p_items = <<>>
    /\ p_data = <<>>
    /\ p_raw = <<>>
    /\ p_out = NotParsed
    /\ mem_table = new(TableSize).mem_table
    /\ mem_table_data_size = new(TableSize).mem_table_data_size
    /\ imm_table = new(TableSize).imm_table
    /\ lower_bound = new(TableSize).lower_bound
    /\ upper_bound = new(TableSize).upper_bound
    /\ table_size = new(TableSize).table_size
    /\ written = {}
    /\ latest = {}
    /\ first_written = None
    /\ last_op = NoOp
    /\ current_cache_count = 0
    /\ lru = <<>>
    /\ tables = [i \in TableIds |-> None]
    /\ pc = [t \in Threads |-> "idle"]
    /\ t_file = [t \in Threads |-> None]
    /\ t_tbl = [t \in Threads |-> None]
    /\ t_seen = [t \in Threads |-> None]
    /\ polls = [t \in Threads |-> 0]
    /\ bounds_of = [i \in Partitions |-> [lower |-> None, upper |-> None]]
    /\ cmp_out = NoCmp
    /\ k_in = <<>>
    /\ k_out = NoCmp
    /\ idx_out = NoCall

InitKeys ==
    /\ p_items = <<>>
    /\ p_data = <<>>
    /\ p_raw = <<>>
    /\ p_out = NotParsed
    /\ mem_table = new(TableSize).mem_table
    /\ mem_table_data_size = new(TableSize).mem_table_data_size
    /\ imm_table = new(TableSize).imm_table
    /\ lower_bound = new(TableSize).lower_bound
    /\ upper_bound = new(TableSize).upper_bound
    /\ table_size = new(TableSize).table_size
    /\ written = {}
    /\ latest = {}
    /\ first_written = None
    /\ last_op = NoOp
    /\ current_cache_count = 0
    /\ lru = <<>>
    /\ tables = [i \in TableIds |-> None]
    /\ pc = [t \in Threads |-> "idle"]
    /\ t_file = [t \in Threads |-> None]
    /\ t_tbl = [t \in Threads |-> None]
    /\ t_seen = [t \in Threads |-> None]
    /\ polls = [t \in Threads |-> 0]
    /\ bounds_of = [i \in Partitions |-> [lower |-> None, upper |-> None]]
    /\ cmp_out = NoCmp
    /\ k_in \in [1..3 -> InternalKeys]
    /\ k_out = NoCmp
    /\ idx_out = NoCall

SpecParse == InitParse /\ [][NextParse]_vars

SpecWide == InitWide /\ [][NextParse]_vars

SpecCorrupt == InitCorrupt /\ [][NextParse]_vars

SpecIndex == InitIdle /\ [][NextIndex]_vars

SpecKeys == InitKeys /\ [][NextKeys]_vars

SpecCompare == InitIdle /\ [][NextCompare]_vars

SpecPartition == InitIdle /\ [][NextPartition]_vars

SpecFreeze == InitIdle /\ [][NextFreeze]_vars

SpecCache == InitIdle /\ [][NextCache]_vars

\* every thread that can take a step eventually takes one
FairSpecCache == SpecCache /\ \A t \in Threads : WF_vars(ThreadNext(t))

(***************************************************************************)
(* The claims.                                                             *)
(***************************************************************************)

\* C1: with threads calling allocate_quota concurrently and dropping guards at
\* arbitrary times, the number of live CacheQuota guards never exceeds the
\* configured capacity.
C1_LiveGuardsWithinCapacity == LiveGuards <= CacheCount

\* a step in which a thread other than t releases a slot
ReleaseByOther(t) ==
    /\ current_cache_count' < current_cache_count
    /\ pc'[t] = pc[t]

\* C2: under fair scheduling, if other threads keep releasing guards, every
\* thread waiting in allocate_quota eventually returns with a guard.
C2_WaiterEventuallyAdmitted ==
    \A t \in Threads :
        ([]<><<ReleaseByOther(t)>>_vars) => ((pc[t] = "poll") ~> (pc[t] = "quota"))

\* C3: a step that drops a CacheQuota guard (standalone, inside a failed
\* parse, or with the last reference to a parsed table) drops exactly one,
\* lowers the occupied-slot counter by exactly one, and where a thread drops
\* its guard or its reference the index, the other threads and the other
\* tables are left as they were; a reference dropped while the table has
\* other holders leaves the counter alone.
C3_DropReleasesOneSlot ==
    [][/\ LiveGuards' >= LiveGuards - 1
       /\ LiveGuards' <= LiveGuards =>
             current_cache_count' = current_cache_count - (LiveGuards - LiveGuards')
       /\ \A t \in Threads :
             (pc[t] \in {"quota", "reading"} /\ pc'[t] = "idle") =>
                /\ lru' = lru
                /\ \A u \in Threads \ {t} : pc'[u] = pc[u] /\ t_tbl'[u] = t_tbl[u]
                /\ \A i \in TableIds : t_tbl[t] # Some(i) => tables'[i] = tables[i]]_vars

\* a table has been reclaimed and its guard dropped with it: its identity is
\* free again while a table made later is alive, and the counter matches
\* the guards left
C3_Witness ==
    /\ current_cache_count = LiveGuards
    /\ \E i \in TableIds : tables[i] = None /\ \E j \in TableIds : j > i /\ tables[j] # None

\* a reader whose table is no longer in the index
Evicted(t) == pc[t] = "reading" /\ ~InLru(lru, Unwrap(t_tbl[t]))

\* a step on which the index lets go of the entry of a file other than the
\* one being added
EvictionStep ==
    \E i \in 1..Len(lru) : ~InLru(lru', lru[i].tbl) /\ lru'[1].file # lru[i].file

\* what holds of the code: a table a reader holds stays alive and keeps the
\* catalog and data the reader saw, every table in the index is alive, and a
\* lookup of an evicted file misses
ReaderKeepsTable ==
    /\ [](\A t \in Threads :
            pc[t] = "reading" =>
                /\ tables[Unwrap(t_tbl[t])] # None
                /\ tables[Unwrap(t_tbl[t])] = t_seen[t])
    /\ [](\A i \in 1..Len(lru) : tables[lru[i].tbl] # None)
    /\ [][\A i \in 1..Len(lru) :
            (~InLru(lru', lru[i].tbl) /\ lru'[1].file # lru[i].file) =>
                LruGet(lru', lru[i].file).tbl = None]_vars

\* what also holds of the code: the index lets go of another file's entry
\* only on a step taken with more guards alive than the capacity
EvictionNeedsOverAdmission == [][EvictionStep => LiveGuards > CacheCount]_vars

\* C4: filling a full index with another file evicts an entry (in a run that
\* keeps to the capacity, a thread that misses while the index is full
\* eventually has its table added), and a table a reader holds stays alive
\* with the catalog and data the reader saw, also after the index has let go
\* of it, while a lookup of the evicted file misses.
C4_ReaderSurvivesEviction ==
    /\ ReaderKeepsTable
    /\ \A t \in Threads :
          ([](LiveGuards <= CacheCount)) =>
              ((pc[t] = "poll" /\ Len(lru) = CacheCount) ~> (pc[t] = "reading"))

\* a reader still holds the table it was given while the index, full of
\* other files, no longer has the reader's file
ReaderOfEvictedTable ==
    \E t \in Threads :
        /\ Evicted(t)
        /\ Len(lru) = CacheCount
        /\ LruGet(lru, Unwrap(t_file[t])).tbl = None
        /\ tables[Unwrap(t_tbl[t])] = Some([catalog |-> ParsedFiles[Unwrap(t_file[t])].catalog,
                                             data |-> ParsedFiles[Unwrap(t_file[t])].data])

\* C5: a get of an internal key that was put returns the value last put under
\* it, and a get of an internal key never put returns none rather than failing.
C5_GetAfterPut ==
    last_op.op = "get" =>
        LET k == Unwrap(last_op.key)
        IN  /\ last_op.status = "returned"
            /\ \A w \in latest :
                  (w.key.seq = k.seq /\ w.key.user_key.key = k.user_key.key) =>
                      last_op.result = Some(w.value)
            /\ (\A w \in written :
                  ~(w.key.seq = k.seq /\ w.key.user_key.key = k.user_key.key)) =>
                      last_op.result = None

\* C6: after any sequence of puts lower_bound is present iff upper_bound is:
\* both absent before the first put, both the first written user key after it.
C6_BoundsSetTogether ==
    /\ (lower_bound = None) <=> (upper_bound = None)
    /\ written = {} => lower_bound = None /\ upper_bound = None
    /\ written # {} =>
          /\ lower_bound = Some(new_owned(Unwrap(first_written)))
          /\ upper_bound = Some(new_owned(Unwrap(first_written)))

\* several puts have been made and the bounds are set
C6_Witness ==
    /\ Cardinality(written) >= 2
    /\ lower_bound # None
    /\ upper_bound # None
    /\ \E w \in written : w.key.user_key.key # Unwrap(first_written)

\* C7: once the bounds are set, every user key ever written lies between
\* lower_bound and upper_bound under the comparator.
C7_BoundsCoverWrittenKeys ==
    (lower_bound # None /\ upper_bound # None) =>
        \A w \in written :
            /\ UserKeyCmp(Unwrap(lower_bound), w.key.user_key) # "Greater"
            /\ UserKeyCmp(w.key.user_key, Unwrap(upper_bound)) # "Greater"

\* C8: the put that crosses the table-size threshold freezes the mutable
\* table: it becomes the frozen table and a fresh mutable table receives the
\* entry.
C8_CrossingPutFreezes ==
    (last_op.op = "put" /\ last_op.crossed /\ last_op.status = "returned") =>
        /\ imm_table # None
        /\ mem_table = <<[key |-> Unwrap(last_op.key), value |-> Unwrap(last_op.value)]>>

\* C9: at most one frozen table exists, and a put that crosses the threshold
\* while a frozen table is pending fails fast instead of proceeding.
C9_OneFrozenTable ==
    /\ Len(imm_table) <= 1
    /\ (last_op.op = "put" /\ last_op.crossed /\ imm_table # None) =>
          last_op.status = "panic"

\* a put crossed the threshold while a frozen table was pending
C9_Witness ==
    /\ last_op.op = "put"
    /\ last_op.crossed
    /\ imm_table # None
    /\ last_op.status = "panic"

\* C10: a validly constructed table buffer whose items all lie inside the data
\* region, items ending exactly at its end included, parses: from_raw returns
\* the catalog items in file order and a copy of the data region.
C10_ValidTableParses ==
    (p_out # NotParsed /\ p_raw = BuildTable(p_items, p_data)
       /\ AllInside(p_items, Len(p_data))) =>
        p_out = Ok(p_items, p_data)

\* C11: from_raw returns a corrupt-table error, never a parsed table and never
\* a panic, for a buffer shorter than the minimum size, one whose magic bytes
\* are replaced, one whose catalog size is no multiple of 16, one whose sizes
\* do not add up to its length, and one with a single byte of the catalog or
\* data region changed; the reason names the first check that fails.
C11_DamagedBufferIsCorrupt ==
    LET good == BuildTable(p_items, p_data)
    IN  (p_out # NotParsed /\ p_raw \in Damaged(good)) =>
            /\ p_out.status = "corrupt"
            /\ p_raw \in Truncated(good) => p_out.reason = "too small to be a table file"
            /\ p_raw \in MagicReplaced(good) => p_out.reason = "incorrect table magic"
            /\ p_raw \in ByteChanged(good) =>
                  p_out.reason \in {"incorrect kv_catalog crc", "incorrect data crc"}

\* the last byte of a non-empty data region was changed and the parse was refused
C11_Witness ==
    /\ p_out # NotParsed
    /\ p_data # <<>>
    /\ p_items # <<>>
    /\ p_raw = [BuildTable(p_items, p_data) EXCEPT
                   ![Len(p_raw) - TABLE_MAGIC_SIZE] = 255 - p_data[Len(p_data)]]
    /\ p_out = Err("incorrect data crc")

\* the comparison recorded in cmp_out is of the partitions as they are now
CmpCurrent ==
    /\ cmp_out # NoCmp
    /\ cmp_out.partial_cmp = partial_cmp(Concrete(cmp_out.a), Concrete(cmp_out.b))

BoundsSet(i) == bounds_of[i].lower # None /\ bounds_of[i].upper # None

UpperBelowLower(i, j) ==
    UserKeyCmp(Unwrap(bounds_of[i].upper), Unwrap(bounds_of[j].lower)) = "Less"

LowerAboveUpper(i, j) ==
    UserKeyCmp(Unwrap(bounds_of[i].lower), Unwrap(bounds_of[j].upper)) = "Greater"

WellFormed(i) ==
    UserKeyCmp(Unwrap(bounds_of[i].lower), Unwrap(bounds_of[i].upper)) # "Greater"

\* what the claim says of every pair whose bounds are set, whatever the
\* order of each partition's own bounds
PartitionOrderAsStated(wellformed_only) ==
    (CmpCurrent /\ BoundsSet(cmp_out.a) /\ BoundsSet(cmp_out.b)
       /\ (wellformed_only => WellFormed(cmp_out.a) /\ WellFormed(cmp_out.b))) =>
        LET a == cmp_out.a
            b == cmp_out.b
            r == cmp_out.partial_cmp
            back == partial_cmp(Concrete(b), Concrete(a))
        IN  /\ r.status = "returned"
            /\ r.value = Some("Less") <=> UpperBelowLower(a, b)
            /\ r.value = Some("Greater") <=> LowerAboveUpper(a, b)
            /\ (WellFormed(a) /\ WellFormed(b)) =>
                  /\ r.value = Some("Less") <=> back.value = Some("Greater")
                  /\ r.value = Some("Greater") <=> back.value = Some("Less")
            /\ (~UpperBelowLower(a, b) /\ ~LowerAboveUpper(a, b)) =>
                  r.value = None /\ cmp_out.cmp.status = "panic"
            /\ r.value # None =>
                  cmp_out.cmp = Returned(Unwrap(r.value))
            /\ cmp_out.eq.status = "returned" => cmp_out.eq.value = FALSE

\* C12 as stated: for two partitions whose bounds are set, Less exactly when
\* A.upper < B.lower, Greater exactly when A.lower > B.upper, antisymmetric
\* when lower <= upper in both, no order for any other pair (partial_cmp is
\* none and cmp panics), and eq never true.
C12_PartitionOrderAnyBounds == PartitionOrderAsStated(FALSE)

\* C12: the same for two partitions whose bounds are set with
\* lower <= upper in each.
C12_PartitionOrder == PartitionOrderAsStated(TRUE)

\* two disjoint well-formed partitions were compared and found ordered,
\* cmp returned and eq returned false
C12_Witness ==
    /\ CmpCurrent
    /\ BoundsSet(cmp_out.a) /\ BoundsSet(cmp_out.b)
    /\ WellFormed(cmp_out.a) /\ WellFormed(cmp_out.b)
    /\ bounds_of[cmp_out.a].lower # bounds_of[cmp_out.a].upper
    /\ cmp_out.partial_cmp = Returned(Some("Greater"))
    /\ cmp_out.cmp = Returned("Greater")
    /\ cmp_out.eq = Returned(FALSE)

\* the lexicographic order of two byte strings, from its definition: the
\* first position where they differ decides, else the shorter is less
BytesLess(x, y) ==
    \E n \in 0..Len(x) :
        /\ n <= Len(y)
        /\ \A i \in 1..n : x[i] = y[i]
        /\ \/ n = Len(x) /\ n < Len(y)
           \/ n < Len(x) /\ n < Len(y) /\ x[n + 1] < y[n + 1]

\* the order the claim states: the sequence number, then the bytes
KeyLess(a, b) ==
    \/ a.seq < b.seq
    \/ a.seq = b.seq /\ BytesLess(a.user_key.key, b.user_key.key)

KeySame(a, b) == a.seq = b.seq /\ a.user_key.key = b.user_key.key

NotGreater(o) == o \in {"Less", "Equal"}

\* C13: InternalKey comparison is a total order by sequence number first and
\* by the user key's bytes only between equal sequence numbers, whatever the
\* ownership variants: it is Less, Equal or Greater as the pairs (seq, bytes)
\* are, antisymmetric and transitive, and two keys are equal exactly when
\* sequence number and bytes are equal.
C13_InternalKeyOrder ==
    k_out # NoCmp =>
        LET a == k_in[1]
            b == k_in[2]
        IN  /\ k_out.ab = "Less" <=> KeyLess(a, b)
            /\ k_out.ab = "Greater" <=> KeyLess(b, a)
            /\ k_out.ab = "Equal" <=> KeySame(a, b)
            /\ k_out.ab = "Less" <=> k_out.ba = "Greater"
            /\ k_out.ab = "Equal" <=> k_out.ba = "Equal"
            /\ (NotGreater(k_out.ab) /\ NotGreater(k_out.bc)) => NotGreater(k_out.ac)
            /\ (NotGreater(k_out.ab) /\ NotGreater(k_out.bc) /\ k_out.ac = "Equal") =>
                  k_out.ab = "Equal" /\ k_out.bc = "Equal"
            /\ k_out.eq_ab <=> KeySame(a, b)
            /\ k_out.user_eq_ab <=> a.user_key.key = b.user_key.key

\* an owned and a borrowed key with the same bytes and sequence number
\* compared equal, and a key with a lower sequence number and greater bytes
\* compared less
C13_Witness ==
    /\ k_out # NoCmp
    /\ k_in[1].user_key.owned /\ ~k_in[2].user_key.owned
    /\ k_out.ab = "Equal" /\ k_out.eq_ab
    /\ k_in[2].seq < k_in[3].seq
    /\ BytesLess(k_in[3].user_key.key, k_in[2].user_key.key)
    /\ k_out.bc = "Less"

\* the threads other than t only look up, read and drop tables already cached
OthersOnlyRead(t) == \A u \in Threads \ {t} : pc[u] \in {"idle", "reading"}

\* C14: a thread that misses and waits in allocate_quota is always eventually
\* admitted, also when the index already holds as many tables as the
\* capacity and nobody else is loading a table: the wait is resolved by
\* eviction or release.
C14_MissEventuallyAdmitted ==
    \A t \in Threads :
        ([]OthersOnlyRead(t)) => ((pc[t] = "poll") ~> (pc[t] = "quota"))

\* thread t's call of from_raw returns an error on this step
ParseFails(t) ==
    /\ pc[t] = "quota"
    /\ pc'[t] = "idle"
    /\ t_file'[t] = t_file[t]

\* C15: when from_raw fails, the guard passed to it is released (the counter
\* goes down by the one its allocate_quota added), no table is created and
\* the index is unchanged, so a lookup of that file still misses; no table of
\* a corrupt file is ever alive or in the index.
C15_FailedParseReleasesQuota ==
    /\ [](\A i \in TableIds : tables[i] # None =>
            \E f \in Files : /\ ParsedFiles[f].status = "ok"
                              /\ tables[i] = Some([catalog |-> ParsedFiles[f].catalog,
                                                    data |-> ParsedFiles[f].data]))
    /\ [](\A i \in 1..Len(lru) : ParsedFiles[lru[i].file].status = "ok")
    /\ [][\A t \in Threads : ParseFails(t) =>
            /\ ParsedFiles[Unwrap(t_file[t])].status = "corrupt"
            /\ current_cache_count' = current_cache_count - 1
            /\ LiveGuards' = LiveGuards - 1
            /\ tables' = tables
            /\ lru' = lru
            /\ LruGet(lru', Unwrap(t_file[t])).tbl = None]_vars

\* a thread is back from a failed load of a corrupt file while another
\* file's table is cached: the counter is the one slot of that table and a
\* lookup of the corrupt file misses
C15_Witness ==
    \E t \in Threads :
        /\ pc[t] = "idle"
        /\ t_file[t] # None
        /\ ParsedFiles[Unwrap(t_file[t])].status = "corrupt"
        /\ LruGet(lru, Unwrap(t_file[t])).tbl = None
        /\ Len(lru) = 1
        /\ current_cache_count = 1
        /\ LiveGuards = 1

\* C16: whenever from_raw succeeds, every catalog item's key range and value
\* range end inside the data region as true integer sums, and a valid buffer
\* with an item whose 32-bit fields sum past 2^32 is rejected as corrupt.
C16_NoWrapAccepted ==
    p_out # NotParsed =>
        /\ p_out.status = "ok" => AllInside(p_out.catalog, Len(p_out.data))
        /\ (\E i \in 1..Len(p_items) : ItemOverflows(p_items[i])) =>
              p_out.status = "corrupt"

\* the bytes of user keys and values in entries i.. of a table
RECURSIVE DataBytes(_, _)
DataBytes(m, i) ==
    IF i > Len(m) THEN 0
    ELSE Len(m[i].key.user_key.key) + Len(m[i].value) + DataBytes(m, i + 1)

\* C17: after any sequence of puts the footprint estimate is the sum over the
\* mutable table's entries of user key length + value length, plus the entry
\* count times the per-entry catalog overhead, plus the minimum table size.
C17_FootprintCountsData ==
    memtable_size(Self) =
        DataBytes(mem_table, 1) + Len(mem_table) * TABLE_CATALOG_ITEM_SIZE + TABLE_MIN_SIZE

\* the files with an entry in the index
Resident(l) == {l[i].file : i \in 1..Len(l)}

\* the resident file whose last add or hit is the oldest
LeastRecentlyTouched(l, touched) ==
    CHOOSE f \in Resident(l) : \A g \in Resident(l) : touched[f] <= touched[g]

\* C18: the index never holds more than its entry count and holds a file at
\* most once; add_cache of a file not resident into a full index evicts
\* exactly the resident file least recently touched by add_cache or by a
\* get_cache hit; a hit promotes its entry to the front and returns the table
\* last added under the file, a miss returns none and changes nothing; and
\* every resident entry is the table last added under its file.
C18_IndexIsLru ==
    /\ [](Len(lru) <= IndexCap)
    /\ [](Cardinality(Resident(lru)) = Len(lru))
    /\ [](\A i \in 1..Len(lru) : idx_out.added[lru[i].file] = Some(lru[i].tbl))
    /\ [][LET f == Unwrap(idx_out'.file)
          IN  /\ idx_out'.op = "add" =>
                    /\ lru'[1] = [file |-> f, tbl |-> Unwrap(idx_out'.result)]
                    /\ (f \notin Resident(lru) /\ Len(lru) = IndexCap) =>
                          Resident(lru') =
                            (Resident(lru) \ {LeastRecentlyTouched(lru, idx_out.touched)})
                              \cup {f}
                    /\ (f \in Resident(lru) \/ Len(lru) < IndexCap) =>
                          Resident(lru') = Resident(lru) \cup {f}
              /\ (idx_out'.op = "get" /\ f \in Resident(lru)) =>
                    /\ idx_out'.result = idx_out.added[f]
                    /\ lru'[1].file = f
                    /\ Resident(lru') = Resident(lru)
              /\ (idx_out'.op = "get" /\ f \notin Resident(lru)) =>
                    /\ idx_out'.result = None
                    /\ lru' = lru]_vars

\* the index is full, and a file added after a resident one has been
\* evicted before it: a hit had promoted the older entry
C18_Witness ==
    /\ idx_out.op = "add"
    /\ Len(lru) = IndexCap
    /\ \E e \in Files \ Resident(lru), g \in Resident(lru) \ {Unwrap(idx_out.file)} :
          /\ idx_out.added[e] # None
          /\ idx_out.added[g] # None
          /\ Unwrap(idx_out.added[g]) < Unwrap(idx_out.added[e])

\* the entries of the mutable table whose key has this sequence number and
\* these user key bytes
EntriesOf(m, key) ==
    {i \in 1..Len(m) : m[i].key.seq = key.seq /\ m[i].key.user_key.key = key.user_key.key}

\* C19: a put whose internal key (sequence number and user key bytes) is
\* already in the mutable table replaces the stored value and adds no entry:
\* the entry count is unchanged, the other entries are untouched, a get of
\* the key returns the newer value, and the bounds are unchanged.
C19_PutOverwritesEqualKey ==
    [][(last_op'.op = "put" /\ EntriesOf(mem_table, Unwrap(last_op'.key)) # {}) =>
          LET key == Unwrap(last_op'.key)
              i   == CHOOSE i \in EntriesOf(mem_table, key) : TRUE
          IN  /\ last_op'.status = "returned"
              /\ Len(mem_table') = Len(mem_table)
              /\ mem_table' = [mem_table EXCEPT ![i].value = Unwrap(last_op'.value)]
              /\ get([mem_table |-> mem_table', imm_table |-> imm_table'], key)
                    = Returned(last_op'.value)
              /\ lower_bound' = lower_bound
              /\ upper_bound' = upper_bound]_vars

\* the last put wrote a key for the second time with another value, and the
\* table holds one entry for it, with the newer value
C19_Witness ==
    /\ last_op.op = "put"
    /\ \E w \in written :
          /\ w.key = Unwrap(last_op.key)
          /\ w.value # Unwrap(last_op.value)
    /\ Cardinality(EntriesOf(mem_table, Unwrap(last_op.key))) = 1
    /\ Len(mem_table) < Cardinality(written)
    /\ get(Self, Unwrap(last_op.key)) = Returned(last_op.value)

\* the guards not yet attached to a table
UnattachedGuards == {t \in Threads : pc[t] = "quota"}

\* the parsed tables alive: resident in the index, held by a reader, or just
\* parsed and still in the hands of the thread about to add them
LiveTables ==
    {i \in TableIds :
        \/ InLru(lru, i)
        \/ \E t \in Threads : pc[t] \in {"parsed", "reading"} /\ t_tbl[t] = Some(i)}

\* C20: in every reachable state the occupied-slot counter is the number of
\* live guards (those not yet attached to a table, plus one per live parsed
\* table, resident or evicted but still referenced), so it never wraps below
\* zero, and the tables resident in the index are never more than the counter.
C20_CounterCountsGuards ==
    /\ current_cache_count = Cardinality(UnattachedGuards) + Cardinality(LiveTables)
    /\ LiveTables = {i \in TableIds : tables[i] # None}
    /\ current_cache_count <= NThreads + CacheCount
    /\ Len(lru) <= current_cache_count

\* the counter is past the capacity and still exact: a reader holds a table
\* no longer in the index while another table is resident
C20_Witness ==
    /\ \E t \in Threads : Evicted(t)
    /\ Len(lru) > 0
    /\ current_cache_count > CacheCount
    /\ current_cache_count = LiveGuards

====
